---- MODULE Spec2Model ----
(***************************************************************************)
(* The playback queue engine of crabidy-server: QueueManager               *)
(* (crabidy-server/src/lib.rs), and the playback orchestration actor that  *)
(* owns it (crabidy-server/src/playback.rs) with its collaborators, the    *)
(* provider (provider.rs) and the audio engine (audio-player).  Track      *)
(* positions and play-order offsets are 0-based as in the source; TLA+     *)
(* sequences are 1-based, so the element at index i of a Vec v is          *)
(* v[i + 1].                                                               *)
(***************************************************************************)
EXTENDS Integers, Sequences, FiniteSets, TLC

\* ---------------------------------------------------------------- bounds
\* longest queue explored.  It also caps what the code lets grow without
\* limit once play_order and tracks disagree: the length of play_order, the
\* entries of play_order and current_offset.
MaxLen == 3
\* longest track list handed to one call
MaxNew == 2
\* longest position list handed to remove_tracks
MaxRemove == 2
\* nodes of the catalogues explored
MaxNodes == 3
\* longest uuid list of a command
MaxUuids == 2
\* commands the clients send
MaxSent == 2
\* engine events forwarded to the mailbox
MaxForward == 2
\* clients subscribed to the updates
MaxSubscribers == 1
\* TogglePlay commands sent while the engine's calls are followed step by step
MaxCommands == 22
\* flume::bounded(10)
MailboxCapacity == 10

\* Track values; 0 stands for Option::None
Tracks == 1..MaxLen
None == 0

\* usize::MAX, the result of the wrapping subtraction 0 - 1 in a build
\* without overflow checks.  Only its order against current_offset matters.
UsizeMax == 2147483647

VARIABLES
    tracks,           \* Vec<Track>
    play_order,       \* Vec<usize>
    current_offset,   \* usize
    repeat,           \* pub bool
    shuffle,          \* pub bool
    overflow_checks,  \* build profile: TRUE = arithmetic overflow panics
    panic,            \* "none", or the kind of panic that ended the owner
    last,             \* the last call: its name, arguments and results, and
                      \* for shuffle_on the current track it was called with
    lib,              \* the provider's catalogue and what it can resolve
    nodes_to_go,      \* flatten_node: Vec<String> of node uuids still to visit
    flat,             \* flatten_node: Vec<Track> collected so far
    mailbox,          \* playback_rx: the commands sent and not yet received
    pc,               \* where Playback::run stands: "recv" or an await
    cur,              \* the command being processed and its locals
    state,            \* Mutex<PlayState>
    effects,          \* what the command being processed has published and
                      \* asked of the audio engine so far
    sink,             \* the engine's rodio Sink: "empty", "playing", "paused"
    volume,           \* the Sink's volume, in tenths
    commands,         \* rx_engine: the PlayerEngineCommands not yet taken
    thread,           \* the engine thread: the events it still has to emit
                      \* for the command in hand, and whether it owes a reply
    ack,              \* the engine's reply is in the caller's one-slot channel
    messages,         \* Player.messages: engine events not yet forwarded
    subscribers,      \* receivers of the broadcast update channel
    sent,             \* number of commands sent to the mailbox so far
    events,           \* number of those that are forwarded engine events
    replies           \* what the RPC callers have got back

\* the fields of QueueManager and the record of the last call
qvars == <<tracks, play_order, current_offset, repeat, shuffle,
           overflow_checks, panic, last>>

\* the provider side
fvars == <<lib, nodes_to_go, flat>>

\* the orchestrator, the engine and the channels between them
\* the channel into the engine thread and the thread's position
cvars == <<commands, thread, ack>>

pvars == <<mailbox, pc, cur, state, effects, sink, volume, messages,
           subscribers, sent, events, replies, commands, thread, ack>>

vars == <<tracks, play_order, current_offset, repeat, shuffle,
          overflow_checks, panic, last, lib, nodes_to_go, flat, mailbox, pc,
          cur, state, effects, sink, volume, messages, subscribers, sent,
          events, replies, commands, thread, ack>>

\* ---------------------------------------------------------- Vec helpers
Range(s) == {s[i] : i \in 1..Len(s)}

\* (1..=n).collect(), the positions counted from one
IdentityFromOne(n) == [i \in 1..n |-> i]

\* (0..n).collect()
Identity(n) == [i \in 1..n |-> i - 1]

\* (len..len + n).collect()
Additions(len, n) == [i \in 1..n |-> len + i - 1]

\* every outcome of slice.shuffle(rng)
PermSeqs(s) == {[i \in 1..Len(s) |-> s[p[i]]] : p \in Permutations(1..Len(s))}

\* iter().position(|&i| i == v): the first index holding v, -1 for None
Position(s, v) ==
    IF v \in Range(s)
    THEN (CHOOSE i \in 1..Len(s) : s[i] = v /\ \A j \in 1..(i - 1) : s[j] # v) - 1
    ELSE -1

\* Vec::remove(i)
RemoveAt(s, i) == SubSeq(s, 1, i) \o SubSeq(s, i + 2, Len(s))

\* slice.swap(i, j)
Swap(s, i, j) ==
    [k \in 1..Len(s) |-> IF k = i + 1 THEN s[j + 1]
                         ELSE IF k = j + 1 THEN s[i + 1] ELSE s[k]]

\* the k smallest members of S in increasing order
RECURSIVE Lowest(_, _)
Lowest(S, k) ==
    IF k = 0 \/ S = {} THEN <<>>
    ELSE LET m == CHOOSE x \in S : \A y \in S : x <= y
         IN <<m>> \o Lowest(S \ {m}, k - 1)

\* the track lists passed in: lists of up to n distinct tracks of S.  The
\* code never looks into a Track, so which tracks of S are taken is
\* immaterial and the smallest ones stand for any choice.
TrackLists(S, n) == {Lowest(S, k) : k \in 0..n}

\* ------------------------------------------------------ the queue value
Self == [tracks |-> tracks, play_order |-> play_order,
         current_offset |-> current_offset, repeat |-> repeat,
         shuffle |-> shuffle]

\* the result of one call: the queue it leaves, the returned Option<Track>,
\* the returned bool, and the panic that ended it ("none" when it returned)
Out(q, ret, ok, p) == [q |-> q, ret |-> ret, ok |-> ok, panic |-> p]

current_position(q) ==
    IF q.current_offset < Len(q.play_order)
    THEN q.play_order[q.current_offset + 1]
    ELSE 0

current_track(q) ==
    IF current_position(q) < Len(q.tracks)
    THEN q.tracks[current_position(q) + 1]
    ELSE None

\* play_order.shuffle(..)
shuffle_all(po) == PermSeqs(po)

\* play_order[..pos].shuffle(..); the slice panics when pos > len
shuffle_before_ok(po, pos) == pos <= Len(po)
shuffle_before(po, pos) ==
    {b \o SubSeq(po, pos + 1, Len(po)) : b \in PermSeqs(SubSeq(po, 1, pos))}

\* play_order[pos + 1..].shuffle(..); the slice panics when pos + 1 > len
shuffle_behind_ok(po, pos) == pos + 1 <= Len(po)

\* a shuffle of play_order[pos..], which takes the current step with it
shuffle_from(po, pos) ==
    {SubSeq(po, 1, pos) \o a : a \in PermSeqs(SubSeq(po, pos + 1, Len(po)))}

shuffle_behind(po, pos) ==
    {SubSeq(po, 1, pos + 1) \o a : a \in PermSeqs(SubSeq(po, pos + 2, Len(po)))}

shuffle_on(q) ==
    LET q1 == [q EXCEPT !.shuffle = TRUE] IN
    IF ~shuffle_before_ok(q1.play_order, q1.current_offset)
    THEN {Out(q1, None, FALSE, "slice")}
    ELSE UNION {
        LET q2 == [q1 EXCEPT !.play_order = b] IN
        IF ~shuffle_behind_ok(b, q2.current_offset)
        THEN {Out(q2, None, FALSE, "slice")}
        ELSE {Out([q2 EXCEPT !.play_order = a], None, FALSE, "none")
                : a \in shuffle_behind(b, q2.current_offset)}
        : b \in shuffle_before(q1.play_order, q1.current_offset)}

shuffle_off(q) ==
    {Out([q EXCEPT !.shuffle = FALSE, !.play_order = Identity(Len(q.tracks))],
         None, FALSE, "none")}

\* len - 1 on usize: panics with overflow checks, wraps without them
len_minus_one(len) == IF len = 0 THEN UsizeMax ELSE len - 1

next_track(q, checks) ==
    LET len == Len(q.tracks) IN
    IF len = 0 /\ checks
    THEN {Out(q, None, FALSE, "overflow")}
    ELSE IF q.current_offset < len_minus_one(len)
    THEN LET q1 == [q EXCEPT !.current_offset = q.current_offset + 1]
             current_pos == current_position(q1)
         IN {Out(q1, IF current_pos < len THEN q1.tracks[current_pos + 1] ELSE None,
                 FALSE, "none")}
    ELSE IF q.repeat
    THEN LET q1 == [q EXCEPT !.current_offset = 0] IN
         IF q1.shuffle
         THEN {Out([q1 EXCEPT !.play_order = po],
                   current_track([q1 EXCEPT !.play_order = po]), FALSE, "none")
                 : po \in shuffle_all(q1.play_order)}
         ELSE {Out(q1, current_track(q1), FALSE, "none")}
    ELSE {Out(q, None, FALSE, "none")}

prev_track(q) ==
    IF 0 < q.current_offset
    THEN LET q1 == [q EXCEPT !.current_offset = q.current_offset - 1] IN
         IF current_position(q1) < Len(q1.tracks)
         THEN {Out(q1, q1.tracks[current_position(q1) + 1], FALSE, "none")}
         ELSE {Out(q1, None, FALSE, "index")}
    ELSE {Out(q, None, FALSE, "none")}

\* the part of set_current_position after the optional shuffle_all
set_current_found(q, current_position_arg) ==
    LET off == Position(q.play_order, current_position_arg) IN
    IF off = -1
    THEN Out(q, None, FALSE, "none")
    ELSE IF q.shuffle
    THEN Out([q EXCEPT !.play_order = Swap(q.play_order, 0, off),
                       !.current_offset = 0], None, TRUE, "none")
    ELSE Out([q EXCEPT !.current_offset = off], None, TRUE, "none")

set_current_position(q, current_position_arg) ==
    IF current_position_arg < Len(q.tracks)
    THEN IF q.shuffle
         THEN {set_current_found([q EXCEPT !.play_order = po], current_position_arg)
                 : po \in shuffle_all(q.play_order)}
         ELSE {set_current_found(q, current_position_arg)}
    ELSE {Out(q, None, FALSE, "none")}

replace_with_tracks(q, new) ==
    LET q1 == [q EXCEPT !.current_offset = 0, !.tracks = new,
                        !.play_order = Identity(Len(new))]
        done(q2) ==
            IF 0 < Len(q2.tracks)
            THEN IF current_position(q2) < Len(q2.tracks)
                 THEN Out(q2, q2.tracks[current_position(q2) + 1], FALSE, "none")
                 ELSE Out(q2, None, FALSE, "index")
            ELSE Out(q2, None, FALSE, "none")
    IN IF q1.shuffle
       THEN {done([q1 EXCEPT !.play_order = po]) : po \in shuffle_all(q1.play_order)}
       ELSE {done(q1)}

append_tracks(q, new) ==
    LET len == Len(q.tracks)
        q1 == [q EXCEPT !.play_order = q.play_order \o Additions(len, Len(new)),
                        !.tracks = q.tracks \o new]
    IN IF q1.shuffle
       THEN IF ~shuffle_behind_ok(q1.play_order, q1.current_offset)
            THEN {Out(q1, None, FALSE, "slice")}
            ELSE {Out([q1 EXCEPT !.play_order = po], None, FALSE, "none")
                    : po \in shuffle_behind(q1.play_order, q1.current_offset)}
       ELSE {Out(q1, None, FALSE, "none")}

\* the body of the loop of remove_tracks for one position, on the outcome so
\* far; o.ok carries play_next, o.ret = -1 marks an early `return None`
remove_one(o, pos) ==
    LET q == o.q
        play_next == o.ok \/ pos = current_position(q)
        offset == Position(q.play_order, pos)
        q1 == [q EXCEPT !.current_offset =
                   IF offset < q.current_offset THEN q.current_offset - 1
                   ELSE q.current_offset]
        po == RemoveAt(q1.play_order, offset)
    IN IF Len(q.tracks) < pos THEN Out(q, -1, o.ok, "none")
       ELSE IF offset = -1 THEN Out(q, -1, play_next, "none")
       ELSE IF pos >= Len(q1.tracks) THEN Out(q1, -1, play_next, "index")
       ELSE Out([q1 EXCEPT !.tracks = RemoveAt(q1.tracks, pos),
                           !.play_order = [i \in 1..Len(po) |->
                               IF pos < po[i] THEN po[i] - 1 ELSE po[i]]],
                None, play_next, "none")

RECURSIVE remove_loop(_, _)
remove_loop(o, positions) ==
    IF positions = <<>> \/ o.ret = -1 THEN o
    ELSE remove_loop(remove_one(o, Head(positions)), Tail(positions))

remove_tracks(q, positions) ==
    LET o == remove_loop(Out(q, None, FALSE, "none"), positions) IN
    IF o.ret = -1 THEN {Out(o.q, None, FALSE, o.panic)}
    ELSE IF o.ok THEN {Out(o.q, current_track(o.q), FALSE, "none")}
    ELSE {Out(o.q, None, FALSE, "none")}

\* a splice that starts at `position` instead of `position + 1`
splice_tracks_at_position(tr, position, new) ==
    SubSeq(tr, 1, position) \o new \o SubSeq(tr, position + 1, Len(tr))

\* tracks.splice(position + 1.., new) followed by extend(tail)
splice_tracks(tr, position, new) ==
    SubSeq(tr, 1, position + 1) \o new \o SubSeq(tr, position + 2, Len(tr))

\* the amount by which insert_tracks shifts an already played position
shift_amount(len, inserted) == len

\* the first loop of insert_tracks: play_order after it
shift_played(po, offset, position, amount) ==
    [i \in 1..Len(po) |->
        IF i <= offset /\ position < po[i] THEN po[i] + amount ELSE po[i]]

\* the values pushed to `changed` by the first loop
changed_of(po, offset, position, amount) ==
    {po[i] + amount : i \in {j \in 1..Len(po) : j <= offset /\ position < po[j]}}

\* the second loop of insert_tracks
unshift_rest(po, offset, changed, amount) ==
    [i \in 1..Len(po) |->
        IF i > offset /\ po[i] \in changed THEN po[i] - amount ELSE po[i]]

insert_tracks(q, position, new) ==
    LET len == Len(q.tracks)
        amount == shift_amount(len, Len(new))
        q1 == [q EXCEPT !.play_order = q.play_order \o Additions(len, Len(new))]
        q2 == [q1 EXCEPT !.tracks = splice_tracks(q1.tracks, position, new)]
        changed == changed_of(q1.play_order, q1.current_offset, position, amount)
        q3 == [q2 EXCEPT !.play_order =
                   shift_played(q2.play_order, q2.current_offset, position, amount)]
        q4 == [q3 EXCEPT !.play_order =
                   unshift_rest(q3.play_order, q3.current_offset, changed, amount)]
    IN IF len = 0
       THEN {Out(o.q, None, FALSE, o.panic) : o \in replace_with_tracks(q, new)}
       ELSE IF position + 1 > len THEN {Out(q1, None, FALSE, "slice")}
       ELSE IF ~q3.shuffle /\ changed # {} THEN {Out(q3, None, FALSE, "assert")}
       ELSE IF q4.shuffle
       THEN IF ~shuffle_behind_ok(q4.play_order, q4.current_offset)
            THEN {Out(q4, None, FALSE, "slice")}
            ELSE {Out([q4 EXCEPT !.play_order = po], None, FALSE, "none")
                    : po \in shuffle_behind(q4.play_order, q4.current_offset)}
       ELSE {Out(q4, None, FALSE, "none")}

queue_tracks(q, new) == insert_tracks(q, current_position(q), new)

clear(q, exclude_current) ==
    LET current == current_track(q)
        q1 == [q EXCEPT !.current_offset = 0, !.tracks = <<>>]
    IN IF exclude_current /\ current # None
       THEN {Out([q1 EXCEPT !.tracks = <<current>>], None, ~exclude_current, "none")}
       ELSE {Out(q1, None, ~exclude_current, "none")}

\* ------------------------------------------------------------------ state
NoCall == [op |-> "new", position |-> 0, new |-> <<>>, positions |-> <<>>,
           exclude_current |-> FALSE, ret |-> None, ok |-> FALSE,
           before |-> None]

\* QueueManager::new()
QueueNew ==
    /\ tracks = <<>>
    /\ play_order = <<>>
    /\ current_offset = 0
    /\ repeat = FALSE
    /\ shuffle = FALSE
    /\ overflow_checks \in BOOLEAN
    /\ panic = "none"
    /\ last = NoCall

\* a provider that knows no node and no track
EmptyLibrary ==
    [parent |-> <<>>, queable |-> {}, missing |-> {}, known |-> {},
     playable |-> {}]

\* the engine thread waiting in rx_engine.recv()
EngineIdle == [emit |-> <<>>, reply |-> FALSE]

\* the Sink's volume when it is created, and the highest one set_volume
\* allows, in tenths
InitialVolume == 10
MaxVolume == 11

\* no command received yet
\* (a command's fields, and the locals of its handler: the number of uuids
\* resolved, the tracks they gave, the track the play loop is at)
NoMessage ==
    [type |-> "none", id |-> 0, uuids |-> <<>>, position |-> 0,
     positions |-> <<>>, state |-> "Stopped", delta |-> 0, done |-> 0,
     all_tracks |-> <<>>, uuid |-> None]

\* nothing published and nothing asked of the engine; shown is the current
\* position carried by the latest Queue or QueueTrack update, -1 before the
\* first
NoEffects == [id |-> 0, updates |-> <<>>, requests |-> <<>>, shown |-> -1]

\* Playback::new(): empty mailbox, PlayState::Stopped, Player::default()
PlaybackNew ==
    /\ mailbox = <<>>
    /\ pc = "recv"
    /\ cur = NoMessage
    /\ state = "Stopped"
    /\ effects = NoEffects
    /\ sink = "empty"
    /\ volume = InitialVolume
    /\ messages = <<>>
    /\ subscribers = 0
    /\ sent = 0
    /\ events = 0
    /\ replies = <<>>
    /\ commands = <<>>
    /\ thread = EngineIdle
    /\ ack = FALSE

\* no traversal under way
FlattenIdle ==
    /\ nodes_to_go = <<>>
    /\ flat = <<>>

\* the queue on its own: the orchestrator around it stays as constructed
Init ==
    /\ QueueNew
    /\ lib = EmptyLibrary
    /\ FlattenIdle
    /\ PlaybackNew

\* one call of a public method on the queue: outs is the set of its outcomes.
\* A call that returns is followed only while play_order and current_offset
\* stay within MaxLen; a call that panics ends the owner of the queue, so no
\* call follows it.
\* The same for a queue explored up to `room` tracks.
CallWithin(call, outs, room) ==
    /\ panic = "none"
    /\ \E o \in outs :
        /\ o.panic = "none" =>
            /\ Len(o.q.play_order) <= room
            /\ \A i \in 1..Len(o.q.play_order) : o.q.play_order[i] <= room
            /\ o.q.current_offset <= room
        /\ tracks' = o.q.tracks
        /\ play_order' = o.q.play_order
        /\ current_offset' = o.q.current_offset
        /\ shuffle' = o.q.shuffle
        /\ panic' = o.panic
        /\ last' = [call EXCEPT !.ret = o.ret, !.ok = o.ok]
    /\ UNCHANGED <<repeat, overflow_checks>>
    /\ UNCHANGED <<fvars, pvars>>

Call(call, outs) == CallWithin(call, outs, MaxLen)

ShuffleOn ==
    /\ Call([NoCall EXCEPT !.op = "shuffle_on", !.before = current_track(Self)],
            shuffle_on(Self))

ShuffleOff ==
    /\ Call([NoCall EXCEPT !.op = "shuffle_off"], shuffle_off(Self))

\* track lists a caller may pass: tracks not yet in the queue, so that every
\* track of the queue is told apart, within the queue length explored
NewLists(room) ==
    TrackLists(Tracks \ Range(tracks), IF room < MaxNew THEN room ELSE MaxNew)

NextTrack ==
    /\ Call([NoCall EXCEPT !.op = "next_track"], next_track(Self, overflow_checks))

PrevTrack ==
    /\ Call([NoCall EXCEPT !.op = "prev_track"], prev_track(Self))

SetCurrentPosition ==
    /\ \E p \in 0..MaxLen :
        Call([NoCall EXCEPT !.op = "set_current_position", !.position = p],
             set_current_position(Self, p))

ReplaceWithTracks ==
    /\ \E new \in TrackLists(Tracks, MaxLen) :
        Call([NoCall EXCEPT !.op = "replace_with_tracks", !.new = new],
             replace_with_tracks(Self, new))

AppendTracks ==
    \E new \in NewLists(MaxLen - Len(tracks)) :
        Call([NoCall EXCEPT !.op = "append_tracks", !.new = new],
             append_tracks(Self, new))

\* position lists a caller may pass to remove_tracks
PositionLists == UNION {[1..k -> 0..MaxLen] : k \in 0..MaxRemove}

RemoveTracks ==
    /\ \E positions \in PositionLists :
        Call([NoCall EXCEPT !.op = "remove_tracks", !.positions = positions],
             remove_tracks(Self, positions))

InsertTracks ==
    \E position \in 0..MaxLen, new \in NewLists(MaxLen - Len(tracks)) :
        Call([NoCall EXCEPT !.op = "insert_tracks", !.position = position,
                            !.new = new],
             insert_tracks(Self, position, new))

QueueTracks ==
    \E new \in NewLists(MaxLen - Len(tracks)) :
        Call([NoCall EXCEPT !.op = "queue_tracks", !.new = new,
                            !.before = current_track(Self)],
             queue_tracks(Self, new))

Clear ==
    /\ \E exclude_current \in BOOLEAN :
        Call([NoCall EXCEPT !.op = "clear", !.exclude_current = exclude_current],
             clear(Self, exclude_current))

\* the pub field repeat, flipped by the ToggleRepeat command
ToggleRepeat ==
    /\ panic = "none"
    /\ repeat' = ~repeat
    /\ last' = [NoCall EXCEPT !.op = "toggle_repeat"]
    /\ UNCHANGED <<tracks, play_order, current_offset, shuffle,
                   overflow_checks, panic>>
    /\ UNCHANGED <<fvars, pvars>>

Next ==
    \/ ShuffleOn
    \/ ShuffleOff
    \/ NextTrack
    \/ PrevTrack
    \/ SetCurrentPosition
    \/ ReplaceWithTracks
    \/ AppendTracks
    \/ RemoveTracks
    \/ InsertTracks
    \/ QueueTracks
    \/ Clear
    \/ ToggleRepeat

Spec == Init /\ [][Next]_vars

\* ------------------------------------------------ the queue of four tracks
\* The queue [a,b,c,d] of Scenario C: the same methods on a queue of four
\* tracks that is installed by replace_with_tracks and only shrinks.
ScenarioTracks == <<1, 2, 3, 4>>

ScenarioCall(call, outs) == CallWithin(call, outs, Len(ScenarioTracks))

ScenarioReplace ==
    /\ ScenarioCall([NoCall EXCEPT !.op = "replace_with_tracks",
                                   !.new = ScenarioTracks],
                    replace_with_tracks(Self, ScenarioTracks))

ScenarioShuffleOn ==
    /\ ScenarioCall([NoCall EXCEPT !.op = "shuffle_on",
                                   !.before = current_track(Self)],
                    shuffle_on(Self))

ScenarioShuffleOff ==
    /\ ScenarioCall([NoCall EXCEPT !.op = "shuffle_off"], shuffle_off(Self))

ScenarioNextTrack ==
    /\ ScenarioCall([NoCall EXCEPT !.op = "next_track"],
                    next_track(Self, overflow_checks))

ScenarioPrevTrack ==
    /\ ScenarioCall([NoCall EXCEPT !.op = "prev_track"], prev_track(Self))

ScenarioSetCurrentPosition ==
    /\ \E p \in 0..Len(ScenarioTracks) :
        ScenarioCall([NoCall EXCEPT !.op = "set_current_position",
                                   !.position = p],
                     set_current_position(Self, p))

ScenarioPositionLists ==
    UNION {[1..k -> 0..Len(ScenarioTracks)] : k \in 0..MaxRemove}

ScenarioRemoveTracks ==
    /\ \E positions \in ScenarioPositionLists :
        ScenarioCall([NoCall EXCEPT !.op = "remove_tracks",
                                   !.positions = positions],
                     remove_tracks(Self, positions))

ScenarioNext ==
    \/ ScenarioReplace
    \/ ScenarioShuffleOn
    \/ ScenarioShuffleOff
    \/ ScenarioNextTrack
    \/ ScenarioPrevTrack
    \/ ScenarioSetCurrentPosition
    \/ ScenarioRemoveTracks

ScenarioSpec == Init /\ [][ScenarioNext]_vars

\* ------------------------------------------------------------ the provider
\* A catalogue: node j hangs under node parent[j] (0: under none), a
\* LibraryNode names one parent; node n holds the one track n.  queable are
\* the nodes with is_queable, missing the nodes whose lookup fails, known the
\* tracks get_track finds, playable the tracks a stream url is found for.
Nodes == 1..MaxNodes

\* a uuid: "track:<t>" or the uuid of a node
TrackUuid(t) == <<"track", t>>

NodeUuid(n) == <<"node", n>>

\* fn is_track(uuid)
is_track(uuid) == uuid[1] = "track"

\* LibraryNode.children of node n, in catalogue order
children(l, n) ==
    SelectSeq([j \in 1..Len(l.parent) |-> j], LAMBDA j : l.parent[j] = n)

\* ProviderOrchestrator::get_lib_node
get_lib_node(l, uuid) ==
    IF /\ ~is_track(uuid)
       /\ uuid[2] \in 1..Len(l.parent)
       /\ uuid[2] \notin l.missing
    THEN [ok |-> TRUE,
          is_queable |-> uuid[2] \in l.queable,
          tracks |-> <<uuid[2]>>,
          children |-> [i \in 1..Len(children(l, uuid[2])) |->
                            NodeUuid(children(l, uuid[2])[i])]]
    ELSE [ok |-> FALSE, is_queable |-> FALSE, tracks |-> <<>>,
          children |-> <<>>]

\* the body of flatten_node's loop descending whatever it finds
flatten_step_any(l, st) ==
    LET n == Len(st.nodes_to_go)
        node == get_lib_node(l, st.nodes_to_go[n])
        rest == SubSeq(st.nodes_to_go, 1, n - 1)
    IN  IF ~node.ok
        THEN [st EXCEPT !.nodes_to_go = rest]
        ELSE [nodes_to_go |-> rest \o node.children,
              tracks |-> st.tracks \o node.tracks]

\* the body of flatten_node's loop: pop a uuid, look it up, and if the node
\* is queable take its tracks and push its children
flatten_step(l, st) ==
    LET n == Len(st.nodes_to_go)
        node == get_lib_node(l, st.nodes_to_go[n])
        rest == SubSeq(st.nodes_to_go, 1, n - 1)
    IN  IF ~node.ok
        THEN [st EXCEPT !.nodes_to_go = rest]
        ELSE IF node.is_queable
             THEN [nodes_to_go |-> rest \o node.children,
                   tracks |-> st.tracks \o node.tracks]
             ELSE [st EXCEPT !.nodes_to_go = rest]

RECURSIVE flatten_loop(_, _)
flatten_loop(l, st) ==
    IF st.nodes_to_go = <<>>
    THEN st.tracks
    ELSE flatten_loop(l, flatten_step(l, st))

\* ProviderOrchestrator::flatten_node
flatten_node(l, uuid) ==
    flatten_loop(l, [nodes_to_go |-> <<uuid>>, tracks |-> <<>>])

\* ProviderClient::get_urls_for_track folded with get_track of the url
\* lookup: does a url come back for track t
has_urls(l, t) == t \in l.playable

\* the catalogues over the nodes: every forest, every choice of queable
\* nodes and of failing lookups
Forests ==
    {p \in [Nodes -> 0..MaxNodes] : \A j \in Nodes : p[j] < j}

Catalogues ==
    {[parent |-> p, queable |-> q, missing |-> m, known |-> {},
      playable |-> {}] :
        p \in Forests, q \in SUBSET Nodes, m \in SUBSET Nodes}

FlattenInit ==
    /\ QueueNew
    /\ lib \in Catalogues
    /\ FlattenIdle
    /\ PlaybackNew

\* ProviderMessage::FlattenNode arrives: flatten_node starts with the uuid
\* on its stack; uuid MaxNodes + 1 is one the provider does not know
FlattenStart ==
    /\ last.op = "new"
    /\ \E n \in 1..(MaxNodes + 1) :
        /\ nodes_to_go' = <<NodeUuid(n)>>
        /\ flat' = <<>>
        /\ last' = [NoCall EXCEPT !.op = "flatten_node", !.position = n]
    /\ UNCHANGED <<tracks, play_order, current_offset, repeat, shuffle,
                   overflow_checks, panic, lib, pvars>>

\* one turn of the while loop, with its await on get_lib_node
FlattenStep ==
    /\ last.op = "flatten_node"
    /\ nodes_to_go # <<>>
    /\ LET st == flatten_step(lib, [nodes_to_go |-> nodes_to_go,
                                    tracks |-> flat])
       IN  /\ nodes_to_go' = st.nodes_to_go
           /\ flat' = st.tracks
    /\ UNCHANGED <<qvars, lib, pvars>>

FlattenNext ==
    \/ FlattenStart
    \/ FlattenStep

\* the provider task is scheduled as long as it has a turn to take
FlattenSpec ==
    FlattenInit /\ [][FlattenNext]_vars /\ WF_vars(FlattenStep)

\* -------------------------------------------------------- the orchestrator
\* The catalogue the orchestrator is run against: node 1 is queable and
\* holds track 1, under it hang the queable node 2 with track 2 and the
\* non-queable node 3 with track 3; get_track finds tracks 1 and 2, and a
\* stream url is found for track 1 only.
PlaybackCatalogue ==
    [parent |-> <<0, 1, 1>>, queable |-> {1, 2}, missing |-> {},
     known |-> {1, 2}, playable |-> {1}]

\* the uuids the clients send: the two tracks, a track the provider does
\* not know, the root node and the node that is not queable
Uuids == {TrackUuid(1), TrackUuid(2), TrackUuid(3), NodeUuid(1), NodeUuid(3)}

UuidLists ==
    UNION {[1..n -> Uuids] : n \in 0..MaxUuids}

\* the steps by which the clients change the volume, in tenths
Deltas == {-1, 1}

\* the commands of the RPC handlers
Requests ==
    {[NoMessage EXCEPT !.type = t] :
        t \in {"Init", "ToggleShuffle", "ToggleRepeat", "TogglePlay",
               "Stop", "Next", "Prev", "RestartTrack"}}
    \cup {[NoMessage EXCEPT !.type = t, !.uuids = u] :
            t \in {"Replace", "Queue", "Append"}, u \in UuidLists}
    \cup {[NoMessage EXCEPT !.type = "Insert", !.uuids = u, !.position = p] :
            u \in UuidLists, p \in 0..1}
    \cup {[NoMessage EXCEPT !.type = "Remove", !.positions = ps] :
            ps \in {<<>>, <<0>>, <<1>>}}
    \cup {[NoMessage EXCEPT !.type = "SetCurrent", !.position = p] :
            p \in 0..MaxLen}
    \cup {[NoMessage EXCEPT !.type = "ChangeVolume", !.delta = d] :
            d \in Deltas}

\* what the RPC method answers as soon as its command is enqueued; the
\* answer to Init comes from the orchestrator
rpc_reply(msg) ==
    IF msg.type = "Init"
    THEN <<>>
    ELSE <<[id |-> msg.id, type |-> msg.type, ok |-> TRUE, tracks |-> <<>>,
            position |-> 0, track |-> None, state |-> "Stopped"]>>

\* playback_tx.send_async(..): the command joins the mailbox behind those
\* waiting there
Enqueue(msg) ==
    /\ Len(mailbox) < MailboxCapacity
    /\ mailbox' = Append(mailbox, [msg EXCEPT !.id = sent + 1])
    /\ sent' = sent + 1

\* the next command the loop takes out of the mailbox, when it takes the
\* newest one
dequeue_newest(mb) ==
    [message |-> mb[Len(mb)], rest |-> SubSeq(mb, 1, Len(mb) - 1)]

\* playback_rx.recv_async(): the oldest command and the mailbox without it
dequeue(mb) == [message |-> Head(mb), rest |-> Tail(mb)]

\* impl From<QueueManager> for Queue, sent as StreamUpdate::Queue
QueueUpdate(q) ==
    [kind |-> "Queue", tracks |-> q.tracks,
     position |-> current_position(q), track |-> None, state |-> "Stopped"]

\* StreamUpdate::QueueTrack
QueueTrackUpdate(q) ==
    [kind |-> "QueueTrack", tracks |-> <<>>,
     position |-> current_position(q), track |-> current_track(q),
     state |-> "Stopped"]

\* StreamUpdate::PlayState
PlayStateUpdate(s) ==
    [kind |-> "PlayState", tracks |-> <<>>, position |-> 0, track |-> None,
     state |-> s]

\* update_tx.send(update): Err when nobody is subscribed, and then nothing
\* is published
send_ok == subscribers > 0

published(e, update) ==
    IF send_ok
    THEN [e EXCEPT !.updates = Append(@, update),
                   !.shown = IF update.kind = "PlayState"
                             THEN @ ELSE update.position]
    ELSE e

requested(e, request) == [e EXCEPT !.requests = Append(@, request)]

\* the audio engine: its sink and the events it has emitted
Engine == [sink |-> sink, messages |-> messages]

\* PlayerEngine::play: drops what is loaded, then either fails to open the
\* source or starts it and emits Playing
engine_play(e) ==
    {[sink |-> "empty", messages |-> e.messages],
     [sink |-> "playing", messages |-> Append(e.messages, "Playing")]}

\* PlayerEngine::restart: current_source is set while something is loaded
engine_restart(e) ==
    IF e.sink = "empty" THEN {e} ELSE engine_play(e)

\* PlayerEngine::pause
engine_pause(e) ==
    IF e.sink = "empty"
    THEN {e}
    ELSE {[sink |-> "paused", messages |-> Append(e.messages, "Paused")]}

\* PlayerEngine::unpause
engine_unpause(e) ==
    IF e.sink = "empty"
    THEN {e}
    ELSE {[sink |-> "playing", messages |-> Append(e.messages, "Playing")]}

\* PlayerEngine::stop
engine_stop(e) ==
    IF e.sink = "empty"
    THEN {e}
    ELSE {[sink |-> "empty", messages |-> Append(e.messages, "Stopped")]}

\* PlayerEngine::handle_eos
engine_eos(e) ==
    {[sink |-> "empty", messages |-> Append(e.messages, "EndOfStream")]}

\* the orchestrator of a server that has just started
PlaybackInit ==
    /\ QueueNew
    /\ lib = PlaybackCatalogue
    /\ FlattenIdle
    /\ PlaybackNew

\* the queue takes the outcome of a method called by the orchestrator
Apply(o) ==
    /\ tracks' = o.q.tracks
    /\ play_order' = o.q.play_order
    /\ current_offset' = o.q.current_offset
    /\ shuffle' = o.q.shuffle
    /\ repeat' = o.q.repeat
    /\ panic' = o.panic
    /\ UNCHANGED <<overflow_checks, last>>

\* the engine takes the outcome of a request
Engage(e) ==
    /\ sink' = e.sink
    /\ messages' = e.messages

\* the loop is between two commands and the task is alive
Idle == pc = "recv" /\ panic = "none"

\* the task is alive and inside the handler of a command of type t
Handling(t) == pc = "handle" /\ panic = "none" /\ cur.type = t

\* an RPC handler enqueues its command and, unless it waits for the
\* orchestrator's answer, replies
Send ==
    /\ sent - events < MaxSent
    /\ \E msg \in Requests :
        /\ Enqueue(msg)
        /\ replies' = replies \o rpc_reply([msg EXCEPT !.id = sent + 1])
    /\ UNCHANGED <<qvars, fvars, cvars, volume, pc, cur, state, effects, sink, messages,
                   subscribers, events>>

\* RpcService::get_update_stream: a client subscribes to the updates
Subscribe ==
    /\ subscribers < MaxSubscribers
    /\ subscribers' = subscribers + 1
    /\ UNCHANGED <<qvars, fvars, cvars, volume, mailbox, pc, cur, state, effects, sink,
                   messages, sent, events, replies>>

\* while let Ok(message) = self.playback_rx.recv_async().await
Receive ==
    /\ Idle
    /\ mailbox # <<>>
    /\ cur' = dequeue(mailbox).message
    /\ mailbox' = dequeue(mailbox).rest
    /\ pc' = "handle"
    /\ effects' = [NoEffects EXCEPT !.id = cur'.id, !.shown = effects.shown]
    /\ UNCHANGED <<qvars, fvars, cvars, volume, state, sink, messages, subscribers, sent, events,
                   replies>>

\* Playback::get_track: the provider's answer to GetTrack
get_track(l, uuid) ==
    IF uuid[2] \in l.known
    THEN [ok |-> TRUE, track |-> uuid[2]]
    ELSE [ok |-> FALSE, track |-> None]

\* what one uuid adds to all_tracks, when every uuid is taken for a node
resolve_as_node(l, uuid) == flatten_node(l, uuid)

\* what one uuid adds to all_tracks: the track of a track uuid if it is
\* found, the flattened tracks of any other uuid
resolve(l, uuid) ==
    IF is_track(uuid)
    THEN IF get_track(l, uuid).ok THEN <<get_track(l, uuid).track>> ELSE <<>>
    ELSE flatten_node(l, uuid)

BatchTypes == {"Replace", "Queue", "Append", "Insert"}

\* the handler has resolved every uuid of its command
Resolved == cur.done = Len(cur.uuids)

\* one turn of `for uuid in uuids`, with its await on the provider
ResolveUuid ==
    /\ pc = "handle"
    /\ panic = "none"
    /\ cur.type \in BatchTypes
    /\ ~Resolved
    /\ cur' = [cur EXCEPT !.done = @ + 1,
                          !.all_tracks = @ \o resolve(lib, cur.uuids[cur.done + 1])]
    /\ UNCHANGED <<qvars, fvars, cvars, volume, mailbox, pc, state, effects, sink, messages,
                   subscribers, sent, events, replies>>

\* the panic that ends a step which calls a queue method with outcome o and
\* then publishes: that of the method, or that of unwrap() on a failed send
\* when must_send
panic_of(o, must_send) ==
    IF o.panic # "none" THEN o.panic
    ELSE IF must_send /\ ~send_ok THEN "send"
    ELSE "none"

\* the queue method has run with outcome o and StreamUpdate::Queue is sent
MutateAndPublish(o, must_send) ==
    /\ Apply([o EXCEPT !.panic = panic_of(o, must_send)])
    /\ effects' = IF o.panic = "none"
                  THEN published(effects, QueueUpdate(o.q))
                  ELSE effects

\* self.play(track) up to its first await: nothing to do without a track
StartPlay(track, p) ==
    /\ pc' = IF p # "none" THEN pc
             ELSE IF track = None THEN "recv" ELSE "urls"
    /\ cur' = [cur EXCEPT !.uuid = track]

\* an InitResponse that reports the head of the queue as the current track
init_response_head(id, q, play_state) ==
    [id |-> id, type |-> "Init", ok |-> TRUE, tracks |-> q.tracks,
     position |-> 0,
     track |-> IF q.tracks = <<>> THEN None ELSE q.tracks[1],
     state |-> play_state]

\* the InitResponse built under the queue lock: queue, queue_track and
\* play_state
init_response(id, q, play_state) ==
    [id |-> id, type |-> "Init", ok |-> TRUE, tracks |-> q.tracks,
     position |-> current_position(q), track |-> current_track(q),
     state |-> play_state]

\* PlaybackMessage::Init
HandleInit ==
    /\ Handling("Init")
    /\ replies' = Append(replies, init_response(cur.id, Self, state))
    /\ pc' = "recv"
    /\ UNCHANGED <<qvars, fvars, cvars, volume, mailbox, cur, state, effects, sink, messages,
                   subscribers, sent, events>>

\* PlaybackMessage::Replace, once the uuids are resolved
HandleReplace ==
    /\ Handling("Replace")
    /\ Resolved
    /\ \E o \in replace_with_tracks(Self, cur.all_tracks) :
        /\ MutateAndPublish(o, TRUE)
        /\ StartPlay(current_track(o.q), panic_of(o, TRUE))
    /\ UNCHANGED <<fvars, cvars, volume, mailbox, state, sink, messages, subscribers, sent, events,
                   replies>>

\* PlaybackMessage::Queue, once the uuids are resolved
HandleQueue ==
    /\ Handling("Queue")
    /\ Resolved
    /\ \E o \in queue_tracks(Self, cur.all_tracks) :
        MutateAndPublish(o, FALSE)
    /\ pc' = IF panic' = "none" THEN "recv" ELSE pc
    /\ UNCHANGED <<fvars, cvars, volume, mailbox, cur, state, sink, messages, subscribers,
                   sent, events, replies>>

\* PlaybackMessage::Append, once the uuids are resolved
HandleAppend ==
    /\ Handling("Append")
    /\ Resolved
    /\ \E o \in append_tracks(Self, cur.all_tracks) :
        MutateAndPublish(o, FALSE)
    /\ pc' = IF panic' = "none" THEN "recv" ELSE pc
    /\ UNCHANGED <<fvars, cvars, volume, mailbox, cur, state, sink, messages, subscribers,
                   sent, events, replies>>

\* PlaybackMessage::Insert, once the uuids are resolved
HandleInsert ==
    /\ Handling("Insert")
    /\ Resolved
    /\ \E o \in insert_tracks(Self, cur.position, cur.all_tracks) :
        MutateAndPublish(o, TRUE)
    /\ pc' = IF panic' = "none" THEN "recv" ELSE pc
    /\ UNCHANGED <<fvars, cvars, volume, mailbox, cur, state, sink, messages, subscribers,
                   sent, events, replies>>

\* PlaybackMessage::Remove
HandleRemove ==
    /\ Handling("Remove")
    /\ \E o \in remove_tracks(Self, cur.positions) :
        /\ MutateAndPublish(o, TRUE)
        /\ StartPlay(o.ret, panic_of(o, TRUE))
    /\ UNCHANGED <<fvars, cvars, volume, mailbox, state, sink, messages, subscribers, sent, events,
                   replies>>

\* PlaybackMessage::SetCurrent: the bool of set_current_position is dropped
HandleSetCurrent ==
    /\ Handling("SetCurrent")
    /\ \E o \in set_current_position(Self, cur.position) :
        /\ Apply(o)
        /\ StartPlay(current_track(o.q), o.panic)
    /\ UNCHANGED <<fvars, cvars, volume, mailbox, state, effects, sink, messages,
                   subscribers, sent, events, replies>>

\* PlaybackMessage::ToggleShuffle
HandleToggleShuffle ==
    /\ Handling("ToggleShuffle")
    /\ \E o \in (IF shuffle THEN shuffle_on(Self) ELSE shuffle_off(Self)) :
        Apply(o)
    /\ pc' = IF panic' = "none" THEN "recv" ELSE pc
    /\ UNCHANGED <<fvars, cvars, volume, mailbox, cur, state, effects, sink, messages,
                   subscribers, sent, events, replies>>

\* PlaybackMessage::ToggleRepeat
HandleToggleRepeat ==
    /\ Handling("ToggleRepeat")
    /\ repeat' = ~repeat
    /\ pc' = "recv"
    /\ UNCHANGED <<tracks, play_order, current_offset, shuffle,
                   overflow_checks, panic, last, fvars, cvars, volume, mailbox, cur,
                   state, effects, sink, messages, subscribers, sent, events,
                   replies>>

\* PlaybackMessage::TogglePlay
HandleTogglePlay ==
    /\ Handling("TogglePlay")
    /\ IF state = "Playing"
       THEN /\ effects' = requested(effects, "pause")
            /\ \E e \in engine_pause(Engine) : Engage(e)
       ELSE /\ effects' = requested(effects, "unpause")
            /\ \E e \in engine_unpause(Engine) : Engage(e)
    /\ pc' = "recv"
    /\ UNCHANGED <<qvars, fvars, cvars, volume, mailbox, cur, state, subscribers, sent, events,
                   replies>>

\* PlaybackMessage::Stop
HandleStop ==
    /\ Handling("Stop")
    /\ effects' = requested(effects, "stop")
    /\ \E e \in engine_stop(Engine) : Engage(e)
    /\ pc' = "recv"
    /\ UNCHANGED <<qvars, fvars, cvars, volume, mailbox, cur, state, subscribers, sent, events,
                   replies>>

\* PlayerEngine::set_volume: the sink takes the volume clamped to 0.0..1.1
\* and nothing is emitted
set_volume(v) ==
    IF v < 0 THEN 0 ELSE IF v > MaxVolume THEN MaxVolume ELSE v

\* PlaybackMessage::ChangeVolume: player.volume(), then
\* player.set_volume(volume + delta)
HandleChangeVolume ==
    /\ Handling("ChangeVolume")
    /\ effects' = requested(effects, "set_volume")
    /\ volume' = set_volume(volume + cur.delta)
    /\ pc' = "recv"
    /\ UNCHANGED <<qvars, fvars, cvars, mailbox, cur, state, sink, messages,
                   subscribers, sent, events, replies>>

\* PlaybackMessage::RestartTrack
HandleRestartTrack ==
    /\ Handling("RestartTrack")
    /\ effects' = requested(effects, "restart")
    /\ \E e \in engine_restart(Engine) : Engage(e)
    /\ pc' = "recv"
    /\ UNCHANGED <<qvars, fvars, cvars, volume, mailbox, cur, state, subscribers, sent, events,
                   replies>>

\* self.play_or_stop(track) up to its first await: without a track the
\* engine is asked to stop
StartPlayOrStop(o) ==
    /\ Apply(o)
    /\ IF o.panic = "none" /\ o.ret = None
       THEN /\ effects' = requested(effects, "stop")
            /\ \E e \in engine_stop(Engine) : Engage(e)
       ELSE UNCHANGED <<effects, sink, messages>>
    /\ StartPlay(o.ret, o.panic)

\* PlaybackMessage::Next
HandleNext ==
    /\ Handling("Next")
    /\ \E o \in next_track(Self, overflow_checks) : StartPlayOrStop(o)
    /\ UNCHANGED <<fvars, cvars, volume, mailbox, state, subscribers, sent, events, replies>>

\* PlaybackMessage::Prev
HandlePrev ==
    /\ Handling("Prev")
    /\ \E o \in prev_track(Self) : StartPlayOrStop(o)
    /\ UNCHANGED <<fvars, cvars, volume, mailbox, state, subscribers, sent, events, replies>>

\* the transport state when a notification leaves it as it is
state_kept(current, notified) == current

\* *self.state.lock().unwrap() = state
state_written(current, notified) == notified

\* PlaybackMessage::StateChanged
HandleStateChanged ==
    /\ Handling("StateChanged")
    /\ state' = state_written(state, cur.state)
    /\ effects' = published(effects, PlayStateUpdate(cur.state))
    /\ pc' = "recv"
    /\ UNCHANGED <<qvars, fvars, cvars, volume, mailbox, cur, sink, messages, subscribers,
                   sent, events, replies>>

\* the loop of play and play_or_stop, one turn: the provider is asked for
\* the urls of the track; with urls the QueueTrack update is sent and the
\* engine plays, without them the queue steps on and the loop goes round,
\* or the function returns when next_track() gives none
GetUrls ==
    /\ pc = "urls"
    /\ panic = "none"
    /\ IF has_urls(lib, cur.uuid)
       THEN /\ effects' = requested(published(effects, QueueTrackUpdate(Self)),
                                    "play")
            /\ \E e \in engine_play(Engine) : Engage(e)
            /\ pc' = "recv"
            /\ UNCHANGED <<qvars, cur>>
       ELSE /\ \E o \in next_track(Self, overflow_checks) :
                /\ Apply(o)
                /\ StartPlay(o.ret, o.panic)
            /\ UNCHANGED <<effects, sink, messages>>
    /\ UNCHANGED <<fvars, cvars, volume, mailbox, state, subscribers, sent, events, replies>>

\* the decoder runs out: the engine thread handles Eos
EndOfStream ==
    /\ sink = "playing"
    /\ \E e \in engine_eos(Engine) : Engage(e)
    /\ UNCHANGED <<qvars, fvars, cvars, volume, mailbox, pc, cur, state, effects,
                   subscribers, sent, events, replies>>

\* the command an engine event is forwarded as
forwarded(event) ==
    IF event = "EndOfStream"
    THEN [NoMessage EXCEPT !.type = "Next"]
    ELSE [NoMessage EXCEPT !.type = "StateChanged", !.state = event]

\* the listener on Player.messages forwards the oldest event to the mailbox
Forward ==
    /\ messages # <<>>
    /\ events < MaxForward
    /\ Enqueue(forwarded(Head(messages)))
    /\ events' = events + 1
    /\ messages' = Tail(messages)
    /\ UNCHANGED <<qvars, fvars, cvars, volume, pc, cur, state, effects, sink, subscribers,
                   replies>>

PlaybackNext ==
    \/ Send
    \/ Subscribe
    \/ Receive
    \/ ResolveUuid
    \/ HandleInit
    \/ HandleReplace
    \/ HandleQueue
    \/ HandleAppend
    \/ HandleInsert
    \/ HandleRemove
    \/ HandleSetCurrent
    \/ HandleToggleShuffle
    \/ HandleToggleRepeat
    \/ HandleTogglePlay
    \/ HandleStop
    \/ HandleChangeVolume
    \/ HandleRestartTrack
    \/ HandleNext
    \/ HandlePrev
    \/ HandleStateChanged
    \/ GetUrls
    \/ EndOfStream
    \/ Forward

PlaybackSpec == PlaybackInit /\ [][PlaybackNext]_vars

\* the steps of the task spawned by Playback::run: it is scheduled as long
\* as it has a command to take or a call that has returned
OrchestratorStep ==
    \/ Receive
    \/ ResolveUuid
    \/ HandleInit
    \/ HandleReplace
    \/ HandleQueue
    \/ HandleAppend
    \/ HandleInsert
    \/ HandleRemove
    \/ HandleSetCurrent
    \/ HandleToggleShuffle
    \/ HandleToggleRepeat
    \/ HandleTogglePlay
    \/ HandleStop
    \/ HandleChangeVolume
    \/ HandleRestartTrack
    \/ HandleNext
    \/ HandlePrev
    \/ HandleStateChanged
    \/ GetUrls

\* the commands of a client that only starts and steers the playback, and
\* plays tracks the provider knows
TransportRequests ==
    {msg \in Requests :
        /\ msg.type \in {"Replace", "ToggleRepeat", "TogglePlay", "Stop",
                          "Next", "ChangeVolume"}
        /\ \A i \in DOMAIN msg.uuids :
                msg.uuids[i] \in {TrackUuid(1), TrackUuid(2)}}

\* the RPC handlers such a client calls
SendTransport ==
    /\ sent - events < MaxSent
    /\ \E msg \in TransportRequests :
        /\ Enqueue(msg)
        /\ replies' = replies \o rpc_reply([msg EXCEPT !.id = sent + 1])
    /\ UNCHANGED <<qvars, fvars, cvars, volume, pc, cur, state, effects, sink, messages,
                   subscribers, events>>

TransportNext ==
    \/ SendTransport
    \/ Subscribe
    \/ Receive
    \/ ResolveUuid
    \/ HandleReplace
    \/ HandleToggleRepeat
    \/ HandleTogglePlay
    \/ HandleStop
    \/ HandleChangeVolume
    \/ HandleNext
    \/ HandleStateChanged
    \/ GetUrls
    \/ EndOfStream
    \/ Forward

\* the server with such clients. The orchestrator task and the listener on
\* the engine's events keep running; the clients and the end of a stream
\* are under no obligation
TransportSpec ==
    /\ PlaybackInit
    /\ [][TransportNext]_vars
    /\ WF_vars(OrchestratorStep)
    /\ WF_vars(Forward)

\* ------------------------------------------------------------- channels
\* The calls into the audio engine, step by step: Player's methods put a
\* command into the engine's channel and await the reply, the engine thread
\* takes the command, emits its events into Player.messages and replies.

\* flume::bounded(10) of the engine's commands and of its events
CommandCapacity == 10
MessageCapacity == 10

\* a server that was sent Replace([track 1]) by a subscribed client, plays
\* the track and has republished the engine's Playing
ChannelInit ==
    /\ tracks = <<1>>
    /\ play_order = <<0>>
    /\ current_offset = 0
    /\ repeat = FALSE
    /\ shuffle = FALSE
    /\ overflow_checks \in BOOLEAN
    /\ panic = "none"
    /\ last = NoCall
    /\ lib = PlaybackCatalogue
    /\ FlattenIdle
    /\ mailbox = <<>>
    /\ pc = "recv"
    /\ cur = [forwarded("Playing") EXCEPT !.id = 2]
    /\ state = "Playing"
    /\ effects = [NoEffects EXCEPT !.id = 2, !.shown = 0,
                                   !.updates = <<PlayStateUpdate("Playing")>>]
    /\ sink = "playing"
    /\ volume = InitialVolume
    /\ messages = <<>>
    /\ subscribers = 1
    /\ sent = 2
    /\ events = 1
    /\ replies = rpc_reply([NoMessage EXCEPT !.type = "Replace", !.id = 1,
                                             !.uuids = <<TrackUuid(1)>>])
    /\ commands = <<>>
    /\ thread = EngineIdle
    /\ ack = FALSE

\* RpcService::toggle_play: send_async waits while the mailbox is full
SendTogglePlay ==
    /\ sent - events < MaxCommands
    /\ Enqueue([NoMessage EXCEPT !.type = "TogglePlay"])
    /\ replies' = replies
            \o rpc_reply([NoMessage EXCEPT !.type = "TogglePlay",
                                           !.id = sent + 1])
    /\ UNCHANGED <<qvars, fvars, cvars, volume, pc, cur, state, effects, sink,
                   messages, subscribers, events>>

\* PlaybackMessage::TogglePlay up to the await: Player::pause or
\* Player::unpause sends its command into the engine's channel
CallTogglePlay ==
    /\ Handling("TogglePlay")
    /\ Len(commands) < CommandCapacity
    /\ IF state = "Playing"
       THEN /\ effects' = requested(effects, "pause")
            /\ commands' = Append(commands, "Pause")
       ELSE /\ effects' = requested(effects, "unpause")
            /\ commands' = Append(commands, "Unpause")
    /\ pc' = "ack"
    /\ UNCHANGED <<qvars, fvars, volume, mailbox, cur, state, sink, messages,
                   subscribers, sent, events, replies, thread, ack>>

\* rx.recv_async().await returns with the engine's reply; the handler logs
\* an error and is done
AwaitAck ==
    /\ pc = "ack"
    /\ ack
    /\ ack' = FALSE
    /\ pc' = "recv"
    /\ UNCHANGED <<qvars, fvars, volume, mailbox, cur, state, effects, sink,
                   messages, subscribers, sent, events, replies, commands,
                   thread>>

\* what the engine does with a command: the sink after it and the events it
\* emits, in order
engine_run(command, s) ==
    LET e0 == [sink |-> s, messages |-> <<>>]
    IN  IF command = "Pause" THEN engine_pause(e0) ELSE engine_unpause(e0)

\* the engine thread takes a command out of rx_engine and runs it up to
\* its first tx_player.send
EngineRecv ==
    /\ thread = EngineIdle
    /\ commands # <<>>
    /\ commands' = Tail(commands)
    /\ \E e \in engine_run(Head(commands), sink) :
        /\ sink' = e.sink
        /\ thread' = [emit |-> e.messages, reply |-> TRUE]
    /\ UNCHANGED <<qvars, fvars, volume, mailbox, pc, cur, state, effects,
                   messages, subscribers, sent, events, replies, ack>>

\* tx_player.send(..): the engine thread blocks while Player.messages is
\* full
EngineEmit ==
    /\ thread.emit # <<>>
    /\ Len(messages) < MessageCapacity
    /\ messages' = Append(messages, Head(thread.emit))
    /\ thread' = [thread EXCEPT !.emit = Tail(@)]
    /\ UNCHANGED <<qvars, fvars, volume, mailbox, pc, cur, state, effects, sink,
                   subscribers, sent, events, replies, commands, ack>>

\* tx.send(player.pause()): the reply goes into the caller's channel
EngineReply ==
    /\ thread.emit = <<>>
    /\ thread.reply
    /\ ack' = TRUE
    /\ thread' = EngineIdle
    /\ UNCHANGED <<qvars, fvars, volume, mailbox, pc, cur, state, effects, sink,
                   messages, subscribers, sent, events, replies, commands>>

ChannelNext ==
    \/ SendTogglePlay
    \/ Receive
    \/ CallTogglePlay
    \/ AwaitAck
    \/ HandleStateChanged
    \/ EngineRecv
    \/ EngineEmit
    \/ EngineReply
    \/ Forward

ChannelSpec == ChannelInit /\ [][ChannelNext]_vars

\* ------------------------------------------------------------- properties
\* po is a permutation of 0..n
IsPermutation(po, n) ==
    /\ Len(po) = n
    /\ \A v \in 0..(n - 1) : \E i \in 1..Len(po) : po[i] = v

\* the track now current, as a caller reads it
Current == current_track(Self)

\* C1: after any sequence of calls, play_order has the length of tracks and
\* is a permutation of 0..tracks.len().
C1_PlayOrderIsPermutation ==
    panic = "none" => IsPermutation(play_order, Len(tracks))

\* C2: whenever tracks is non-empty, current_offset < play_order.len() and
\* current_position() is play_order[current_offset].
C2_OffsetInRange ==
    (panic = "none" /\ tracks # <<>>) =>
        /\ current_offset < Len(play_order)
        /\ current_position(Self) = play_order[current_offset + 1]

\* C3: no call made on a queue without tracks panics.
C3_NoPanicOnEmptyQueue ==
    [][tracks = <<>> => panic' = "none"]_vars

\* C4: insert_tracks(position, T) with position < tracks.len() leaves the
\* current track the current track.
C4_InsertKeepsCurrentTrack ==
    [][(/\ last'.op = "insert_tracks"
        /\ panic' = "none"
        /\ Current # None
        /\ last'.position < Len(tracks))
       => Current' = Current]_vars

\* C5: shuffle_off() leaves the current track the current track and resets
\* play_order to the identity.
C5_ShuffleOffKeepsCurrentTrack ==
    [][(last'.op = "shuffle_off" /\ Current # None)
       => (Current' = Current /\ play_order' = Identity(Len(tracks')))]_vars

\* C6: shuffle_on() followed immediately by shuffle_off() leaves
\* current_track() as it was before the shuffle_on().
C6_ShuffleOnOffKeepsCurrentTrack ==
    [][(last.op = "shuffle_on" /\ panic = "none" /\ last'.op = "shuffle_off")
       => Current' = last.before]_vars

\* C7: shuffle_on() and append_tracks(T) leave the current track the current
\* track.
C7_ShuffleOnAppendKeepCurrentTrack ==
    [][(/\ last'.op \in {"shuffle_on", "append_tracks"}
        /\ panic' = "none"
        /\ Current # None)
       => Current' = Current]_vars

\* C8: in shuffle mode insert_tracks(position, T) leaves every already played
\* step (offset < current_offset) on the track it was on.
C8_InsertKeepsPlayedSteps ==
    [][(/\ last'.op = "insert_tracks"
        /\ panic' = "none"
        /\ shuffle
        /\ tracks # <<>>
        /\ last'.position < Len(tracks))
       => \A i \in 1..current_offset :
            (i <= Len(play_order) /\ play_order[i] < Len(tracks)) =>
                /\ play_order'[i] < Len(tracks')
                /\ tracks'[play_order'[i] + 1] = tracks[play_order[i] + 1]]_vars

\* C9: with shuffle off, insert_tracks(position, T) with
\* position < tracks.len() never fails its assertion changed.is_empty().
C9_InsertAssertionHolds ==
    [][(/\ last'.op = "insert_tracks"
        /\ ~shuffle
        /\ tracks # <<>>
        /\ last'.position < Len(tracks))
       => panic' # "assert"]_vars

\* C10: insert_tracks(position, T) on a non-empty queue with
\* position < tracks.len() leaves tracks = old[0..=position] ++ T ++
\* old[position+1..]; on an empty queue it leaves what replace_with_tracks(T)
\* leaves: tracks = T, current_offset = 0 and play_order a permutation of
\* 0..|T|, the identity when shuffle is off.
C10_InsertPlacesTracks ==
    [][last'.op = "insert_tracks" =>
        LET p == last'.position
            new == last'.new
            k == Len(new)
        IN IF tracks = <<>>
           THEN /\ tracks' = new
                /\ current_offset' = 0
                /\ IsPermutation(play_order', k)
                /\ (~shuffle => play_order' = [i \in 1..k |-> i - 1])
           ELSE p < Len(tracks) =>
                tracks' = [i \in 1..(Len(tracks) + k) |->
                             IF i <= p + 1 THEN tracks[i]
                             ELSE IF i <= p + 1 + k THEN new[i - p - 1]
                             ELSE tracks[i - k]]]_vars

\* an insert_tracks call has put one track between two tracks of the queue
C10_Witness ==
    /\ last.op = "insert_tracks"
    /\ panic = "none"
    /\ last.position = 0
    /\ Len(last.new) = 1
    /\ Len(tracks) = 3
    /\ tracks[2] = last.new[1]

\* s and t hold the same values the same number of times
SameBag(s, t) ==
    /\ Len(s) = Len(t)
    /\ \A v \in Range(s) \cup Range(t) :
        Cardinality({i \in 1..Len(s) : s[i] = v})
            = Cardinality({i \in 1..Len(t) : t[i] = v})

\* C11: append_tracks(T) leaves tracks = old tracks ++ T and leaves
\* play_order[0..=current_offset] element for element as it was; play_order
\* is the old one followed by the new positions, reordered only behind
\* current_offset, and not reordered when shuffle is off.
C11_AppendKeepsPlayedPrefix ==
    [][last'.op = "append_tracks" =>
        LET new == last'.new
            ext == play_order \o [i \in 1..Len(new) |-> Len(tracks) + i - 1]
        IN /\ tracks' = tracks \o new
           /\ Len(play_order') = Len(ext)
           /\ \A i \in 1..Len(play_order) :
                i <= current_offset + 1 => play_order'[i] = play_order[i]
           /\ SameBag(play_order', ext)
           /\ ~shuffle => play_order' = ext]_vars

\* an append_tracks call in shuffle mode has moved the appended position
\* forward, behind the current step
C11_Witness ==
    /\ last.op = "append_tracks"
    /\ panic = "none"
    /\ shuffle
    /\ Len(last.new) = 1
    /\ Len(tracks) = 3
    /\ current_offset = 0
    /\ play_order[2] = 2

\* C12: next_track() with current_offset < len - 1 adds one to
\* current_offset and returns tracks[play_order[current_offset]]; at the last
\* step with repeat it sets current_offset to 0, reshuffles the whole order
\* when shuffle is on, and returns the track at step 0; at the last step
\* without repeat it returns none.
C12_NextTrackResult ==
    [][last'.op = "next_track" =>
        /\ panic' = "none"
        /\ IF current_offset < Len(tracks) - 1
           THEN /\ current_offset' = current_offset + 1
                /\ play_order' = play_order
                /\ current_offset' < Len(play_order')
                /\ play_order'[current_offset' + 1] < Len(tracks)
                /\ last'.ret = tracks[play_order'[current_offset' + 1] + 1]
           ELSE IF repeat
           THEN /\ current_offset' = 0
                /\ SameBag(play_order', play_order)
                /\ ~shuffle => play_order' = play_order
                /\ last'.ret = Current'
                /\ tracks # <<>> => last'.ret # None
           ELSE /\ last'.ret = None
                /\ current_offset' = current_offset]_vars

\* C13: without repeat, a next_track() that follows a next_track() that
\* returned none returns none too, does not panic and leaves current_offset
\* as it was and within the queue.
C13_NextTrackStaysAtEnd ==
    [][(/\ last.op = "next_track"
        /\ panic = "none"
        /\ last.ret = None
        /\ ~repeat
        /\ last'.op = "next_track")
       => /\ panic' = "none"
          /\ last'.ret = None
          /\ current_offset' = current_offset
          /\ current_offset' <= Len(tracks')]_vars

\* C14: set_current_position(p) with p >= tracks.len() returns false and
\* leaves tracks, play_order and current_offset as they were; with
\* p < tracks.len() it returns true and then current_track() is tracks[p],
\* with current_offset 0 in shuffle mode and current_offset the step where
\* play_order holds p otherwise.
C14_SetCurrentPosition ==
    [][last'.op = "set_current_position" =>
        LET p == last'.position IN
        /\ panic' = "none"
        /\ IF p >= Len(tracks)
           THEN /\ ~last'.ok
                /\ UNCHANGED <<tracks, play_order, current_offset>>
           ELSE /\ last'.ok
                /\ Current' = tracks[p + 1]
                /\ shuffle => current_offset' = 0
                /\ ~shuffle => /\ current_offset' < Len(play_order')
                               /\ play_order'[current_offset' + 1] = p]_vars

\* the tracks a step took out of the queue
Removed == Range(tracks) \ Range(tracks')

\* C15: a remove_tracks(P) that took the current track out of the queue
\* returns the new current track, and never none while tracks remain, also
\* when a later entry of P is out of range; one that did not take it out
\* returns none.
C15_RemoveReturnsNewCurrent ==
    [][(last'.op = "remove_tracks" /\ panic' = "none") =>
        IF Current # None /\ Current \in Removed
        THEN /\ last'.ret = Current'
             /\ tracks' # <<>> => last'.ret # None
        ELSE last'.ret = None]_vars

\* the tracks at play steps 0..=co, as far as play_order reaches
PlayedTracks(tr, po, co) ==
    [i \in 1..(IF co + 1 <= Len(po) THEN co + 1 ELSE Len(po)) |->
        IF po[i] < Len(tr) THEN tr[po[i] + 1] ELSE None]

\* every position of the list is inside the queue when its turn comes: a
\* queue of n tracks has lost i - 1 of them before the i-th position is used
ValidPositions(positions, n) ==
    \A i \in 1..Len(positions) : positions[i] < n - (i - 1)

\* C16: a remove_tracks with valid positions that does not take the current
\* track out leaves current_track() as it was, lowers current_offset by the
\* number of removed steps before it, and leaves at play steps
\* 0..=current_offset the tracks played before without the removed ones.
C16_RemoveKeepsPlayed ==
    [][(/\ last'.op = "remove_tracks"
        /\ ValidPositions(last'.positions, Len(tracks))
        /\ Current # None
        /\ Current \notin Removed)
       => LET played == PlayedTracks(tracks, play_order, current_offset)
              kept(t) == t \notin Removed
          IN /\ panic' = "none"
             /\ Current' = Current
             /\ current_offset' = current_offset
                  - Cardinality({i \in 1..Len(played) : ~kept(played[i])})
             /\ PlayedTracks(tracks', play_order', current_offset')
                  = SelectSeq(played, kept)]_vars

\* the sequence tr without the tracks at the 0-based positions in P
DeleteAt(tr, P) ==
    LET keep == {i \in 1..Len(tr) : (i - 1) \notin P}
        nth(j) == CHOOSE i \in keep : Cardinality({m \in keep : m <= i}) = j
    IN [j \in 1..Cardinality(keep) |-> tr[nth(j)]]

\* the positions of the list are different positions of a queue of n tracks
DistinctPositions(positions, n) ==
    /\ \A i \in 1..Len(positions) : positions[i] < n
    /\ \A i, j \in 1..Len(positions) : positions[i] = positions[j] => i = j

\* C17: remove_tracks with several positions removes exactly the tracks that
\* were at those positions before the call, and when the current track was at
\* one of them it returns the new current track, not none, while tracks
\* remain: [a,b,c,d] with current c and remove_tracks([0,2]) leaves [b,d].
C17_RemoveSeveralPositions ==
    [][(/\ last'.op = "remove_tracks"
        /\ IsPermutation(play_order, Len(tracks))
        /\ current_offset < Len(play_order)
        /\ DistinctPositions(last'.positions, Len(tracks)))
       => /\ panic' = "none"
          /\ tracks' = DeleteAt(tracks, Range(last'.positions))
          /\ (current_position(Self) \in Range(last'.positions) /\ tracks' # <<>>)
                => (last'.ret # None /\ last'.ret = Current')]_vars

\* C18: replace_with_tracks(T) from any state leaves tracks = T,
\* current_offset = 0 and play_order a permutation of 0..|T|, the identity
\* when shuffle is off, and returns the track at play step 0, or none when T
\* is empty; a remove_tracks([]) that follows it changes neither tracks nor
\* current_track().
C18_ReplaceThenRemoveNothing ==
    [][/\ last'.op = "replace_with_tracks" =>
            LET T == last'.new IN
            /\ panic' = "none"
            /\ tracks' = T
            /\ current_offset' = 0
            /\ IsPermutation(play_order', Len(T))
            /\ ~shuffle => play_order' = [i \in 1..Len(T) |-> i - 1]
            /\ last'.ret = IF T = <<>> THEN None ELSE T[play_order'[1] + 1]
       /\ (/\ last.op = "replace_with_tracks"
           /\ last'.op = "remove_tracks"
           /\ last'.positions = <<>>)
          => /\ panic' = "none"
             /\ tracks' = tracks
             /\ Current' = Current]_vars

\* a replace_with_tracks in shuffle mode has installed three tracks in an
\* order that is not the identity and returned the one at play step 0
C18_Witness ==
    /\ last.op = "replace_with_tracks"
    /\ panic = "none"
    /\ shuffle
    /\ Len(tracks) = 3
    /\ tracks = last.new
    /\ play_order[1] = 2
    /\ current_offset = 0
    /\ last.ret = tracks[3]

\* C19: clear(exclude_current) returns !exclude_current; clear(false) leaves
\* an empty queue with no current track; clear(true) with current track t
\* leaves exactly t at offset 0: tracks = [t], play_order = [0],
\* current_track() = t, in both modes.
C19_ClearResult ==
    [][last'.op = "clear" =>
        /\ panic' = "none"
        /\ last'.ok = ~last'.exclude_current
        /\ ~last'.exclude_current =>
            /\ tracks' = <<>>
            /\ play_order' = <<>>
            /\ Current' = None
        /\ (last'.exclude_current /\ Current # None) =>
            /\ tracks' = <<Current>>
            /\ play_order' = <<0>>
            /\ current_offset' = 0
            /\ Current' = Current]_vars

\* C20: current_track() is none whenever the queue is empty or
\* current_offset >= play_order.len(); when it is a track, current_offset
\* is a play step and the track is tracks[play_order[current_offset]].
C20_CurrentTrackNoneOutOfRange ==
    panic = "none" =>
        /\ (tracks = <<>> \/ current_offset >= Len(play_order)) => Current = None
        /\ Current # None =>
            /\ current_offset < Len(play_order)
            /\ play_order[current_offset + 1] < Len(tracks)
            /\ Current = tracks[play_order[current_offset + 1] + 1]

\* C21: queue_tracks(T) with a current track t and T not empty leaves t the
\* current track, and the next_track() calls that follow return the tracks
\* of T in order, in both modes (stated for the call that follows directly,
\* which returns the first track of T).
C21_QueueTracksPlaysNext ==
    [][/\ (/\ last'.op = "queue_tracks"
           /\ Current # None
           /\ IsPermutation(play_order, Len(tracks))
           /\ current_offset < Len(play_order)
           /\ last'.new # <<>>)
          => (panic' = "none" /\ Current' = Current)
       /\ (/\ last.op = "queue_tracks"
           /\ last.new # <<>>
           /\ last.before # None
           /\ Current = last.before
           /\ last'.op = "next_track")
          => (panic' = "none" /\ last'.ret = last.new[1])]_vars

\* the node is looked up with success, is queable, and is the start node or
\* hangs under a node of which the same holds
RECURSIVE OnQueableChain(_, _, _)
OnQueableChain(l, start, n) ==
    /\ n \in 1..Len(l.parent)
    /\ n \notin l.missing
    /\ n \in l.queable
    /\ \/ n = start
       \/ /\ l.parent[n] # 0
          /\ OnQueableChain(l, start, l.parent[n])

FlattenDone == last.op = "flatten_node" /\ nodes_to_go = <<>>

QueueState == <<tracks, play_order, current_offset, shuffle, repeat>>

\* ids of the commands waiting in mailbox mb
Waiting(mb) == {mb[i].id : i \in 1..Len(mb)}

\* C22: commands are processed one at a time in arrival order: a command is
\* taken only between two commands and is later than the one before it,
\* and whenever the queue is changed or an update is published, also after
\* an await on the provider or the engine, this is done for the command
\* taken last, and every command still waiting arrived after it.
C22_OneCommandAtATimeInOrder ==
    [][/\ cur'.id # cur.id =>
            /\ pc = "recv"
            /\ cur'.id > cur.id
            /\ \A id \in Waiting(mailbox') : id > cur'.id
       /\ (QueueState' # QueueState \/ effects'.updates # effects.updates) =>
            /\ effects'.id = cur'.id
            /\ \A id \in Waiting(mailbox') : id > cur'.id]_vars

\* a command has published after its await on the provider while a later
\* command was waiting in the mailbox
C22_Witness ==
    /\ pc = "recv"
    /\ cur.type = "Replace"
    /\ Len(effects.updates) = 2
    /\ effects.updates[2].kind = "QueueTrack"
    /\ mailbox # <<>>
    /\ Head(mailbox).id > cur.id

\* number of replies to the Init with this id
InitReplies(rs, id) ==
    Cardinality({i \in 1..Len(rs) : rs[i].type = "Init" /\ rs[i].id = id})

Handles(t) == pc = "handle" /\ cur.type = t /\ panic = "none" /\ pc' # pc

\* C24: the transport state changes only in the step that handles a
\* StateChanged notification; TogglePlay, Stop, Next, Prev, Replace, Remove,
\* SetCurrent, RestartTrack and every other command leave it as it is; and
\* that step sets it to the notified state and publishes that state.
C24_StateWrittenOnlyByStateChanged ==
    [][/\ state' # state => Handles("StateChanged")
       /\ Handles("StateChanged") =>
            /\ state' = cur.state
            /\ subscribers > 0 =>
                /\ Len(effects'.updates) = Len(effects.updates) + 1
                /\ effects'.updates[Len(effects'.updates)].kind = "PlayState"
                /\ effects'.updates[Len(effects'.updates)].state = cur.state]_vars

\* a Stop has been handled, the engine has been asked to stop, and the
\* field still holds the Playing that an earlier notification wrote
C24_Witness ==
    /\ pc = "recv"
    /\ cur.type = "Stop"
    /\ effects.requests = <<"stop">>
    /\ sink = "empty"
    /\ state = "Playing"

\* the transitions of the stated machine
StatedTransitions ==
    {<<"Stopped", "Loading">>, <<"Loading", "Playing">>,
     <<"Playing", "Paused">>, <<"Paused", "Playing">>,
     <<"Paused", "Stopped">>}

\* C25: the transport state moves only along the transitions of the stated
\* machine: Stopped to Loading, Loading to Playing, Playing to Paused,
\* Paused to Playing, Paused to Stopped.
C25_StatedTransitionsOnly ==
    [][state' # state => <<state, state'>> \in StatedTransitions]_vars

\* C26: when the play loop finds no url for a track and next_track() then
\* finds the queue exhausted, with repeat off, the engine is asked to stop.
C26_SkipForwardEndsInStop ==
    [][(/\ pc = "urls"
        /\ ~has_urls(lib, cur.uuid)
        /\ ~repeat
        /\ panic' = "none"
        /\ pc' = "recv")
       => (/\ effects'.requests # <<>>
           /\ effects'.requests[Len(effects'.requests)] = "stop")]_vars

\* the tracks a uuid list stands for: for each uuid in order, the track of
\* a track uuid that is found, the flattened tracks of any other uuid
RECURSIVE ResolvedTracks(_, _)
ResolvedTracks(l, U) ==
    IF U = <<>>
    THEN <<>>
    ELSE (IF Head(U)[1] = "track"
          THEN IF Head(U)[2] \in l.known THEN <<Head(U)[2]>> ELSE <<>>
          ELSE flatten_node(l, Head(U)))
         \o ResolvedTracks(l, Tail(U))

\* the tracks tr with the list new put after position, or new alone when
\* there are no tracks
PutAfter(tr, position, new) ==
    IF tr = <<>>
    THEN new
    ELSE SubSeq(tr, 1, position + 1) \o new
         \o SubSeq(tr, position + 2, Len(tr))

\* C27: resolving a uuid, found or not, neither ends the batch nor stops
\* the orchestrator nor touches the queue; and the list handed to the
\* queue by Replace, Queue, Append and Insert is the concatenation of what
\* the uuids stand for, in their order: Replace installs it, Append puts it
\* behind the tracks there are, Queue and Insert put it after a position.
C27_BatchResolution ==
    [][/\ cur'.done # cur.done /\ cur'.id = cur.id =>
            /\ panic' = "none"
            /\ pc' = "handle"
            /\ cur'.done = cur.done + 1
            /\ QueueState' = QueueState
       /\ (pc = "handle" /\ cur.type \in BatchTypes /\ pc' # pc) =>
            /\ cur.done = Len(cur.uuids)
            /\ cur.all_tracks = ResolvedTracks(lib, cur.uuids)
            /\ cur.type = "Replace" =>
                tracks' = ResolvedTracks(lib, cur.uuids)
            /\ cur.type = "Append" =>
                tracks' = tracks \o ResolvedTracks(lib, cur.uuids)
            /\ (cur.type = "Insert" /\ panic' \in {"none", "send"}) =>
                tracks' = PutAfter(tracks, cur.position,
                                   ResolvedTracks(lib, cur.uuids))
            /\ (cur.type = "Queue" /\ panic' \in {"none", "send"}) =>
                tracks' = PutAfter(tracks, current_position(Self),
                                   ResolvedTracks(lib, cur.uuids))]_vars

\* an Append whose first uuid is a track the provider does not know and
\* whose second is a node has put the node's tracks behind the queue
C27_Witness ==
    /\ pc = "recv"
    /\ panic = "none"
    /\ cur.type = "Append"
    /\ cur.uuids = <<TrackUuid(3), NodeUuid(1)>>
    /\ Len(tracks) > Len(cur.all_tracks)
    /\ cur.all_tracks = <<1, 2>>

MutatingTypes ==
    {"Replace", "Queue", "Append", "Insert", "Remove", "SetCurrent", "Next",
     "Prev", "ToggleShuffle"}

\* C29: the step that applies a queue-mutating command publishes, with a
\* subscriber there, a Queue update whose tracks and current position are
\* those of the queue right after the mutation.
C29_QueueChangedAfterMutation ==
    [][(/\ pc = "handle"
        /\ pc' # pc
        /\ cur.type \in MutatingTypes
        /\ panic = "none"
        /\ panic' = "none"
        /\ subscribers > 0)
       => (/\ Len(effects'.updates) > Len(effects.updates)
           /\ LET u == effects'.updates[Len(effects.updates) + 1]
              IN  /\ u.kind = "Queue"
                  /\ u.tracks = tracks'
                  /\ u.position = current_position(Self)')]_vars

\* C30: a SetCurrent with a position not below the queue length is
\* answered with a failure, and while it is processed the queue stays as it
\* is, no update is published and the engine is asked nothing.
C30_SetCurrentOutOfRange ==
    [][(/\ cur.type = "SetCurrent"
        /\ pc \in {"handle", "urls"}
        /\ panic = "none"
        /\ cur.position >= Len(tracks))
       => (/\ \A i \in 1..Len(replies) :
                replies[i].id = cur.id => ~replies[i].ok
           /\ QueueState' = QueueState
           /\ effects' = effects)]_vars

\* C34: the step that handles ToggleShuffle inverts the shuffle flag, and
\* the step that handles ToggleRepeat inverts the repeat flag.
C34_TogglesInvertFlags ==
    [][/\ (Handles("ToggleShuffle") /\ panic' = "none") => shuffle' = ~shuffle
       /\ Handles("ToggleRepeat") => repeat' = ~repeat]_vars

\* the commands whose handler publishes on the update channel
PublishingTypes ==
    {"Replace", "Queue", "Append", "Insert", "Remove", "StateChanged"}

\* C32: when Replace, Queue, Append, Insert, Remove or a device
\* notification is handled while nobody is subscribed, the failed publish
\* does not end the task: the loop goes on to its next await or back to
\* the mailbox, unless the queue method itself panicked.
C32_FailedPublishNotFatal ==
    [][(/\ pc = "handle"
        /\ panic = "none"
        /\ cur.type \in PublishingTypes
        /\ subscribers = 0
        /\ (pc' # pc \/ panic' # panic))
       => panic' # "send"]_vars

\* C40: an Insert whose position is not below the length of a non-empty
\* queue does not panic and leaves tracks, play_order and current_offset as
\* they are, and the loop goes back to the mailbox.
C40_InsertOutOfRangeHarmless ==
    [][(/\ pc = "handle"
        /\ panic = "none"
        /\ cur.type = "Insert"
        /\ cur.done = Len(cur.uuids)
        /\ tracks # <<>>
        /\ cur.position >= Len(tracks)
        /\ subscribers > 0
        /\ (pc' # pc \/ panic' # panic))
       => (/\ panic' = "none"
           /\ pc' = "recv"
           /\ tracks' = tracks
           /\ play_order' = play_order
           /\ current_offset' = current_offset)]_vars

\* the outcome of remove_tracks(P) followed, if it returned, by
\* remove_tracks(Q)
RemoveThenRemove(q, P, Q) ==
    LET o1 == CHOOSE o \in remove_tracks(q, P) : TRUE
    IN  IF o1.panic # "none"
        THEN o1
        ELSE CHOOSE o \in remove_tracks(o1.q, Q) : TRUE

\* C37: remove_tracks takes its positions in the order given, each against
\* the queue the removals before it left: when every position is valid at
\* the time it is processed, remove_tracks(P ++ Q) leaves the tracks,
\* play_order and current_offset that remove_tracks(P) followed by
\* remove_tracks(Q) leaves, for every way of cutting the list in two.
C37_RemoveIsSequential ==
    [][(/\ last'.op = "remove_tracks"
        /\ ValidPositions(last'.positions, Len(tracks)))
       => \A k \in 0..Len(last'.positions) :
            LET P == SubSeq(last'.positions, 1, k)
                Q == SubSeq(last'.positions, k + 1, Len(last'.positions))
                o == RemoveThenRemove(Self, P, Q)
            IN  /\ panic' = o.panic
                /\ tracks' = o.q.tracks
                /\ play_order' = o.q.play_order
                /\ current_offset' = o.q.current_offset]_vars

\* C38: whenever the loop is between two commands, the current position
\* carried by the latest published Queue or QueueTrack update, if there is
\* one, is the queue's current_position().
C38_ShownPositionIsCurrent ==
    (pc = "recv" /\ panic = "none" /\ effects.shown # -1)
        => effects.shown = current_position(Self)

\* C31: a Replace or Queue command that names a node that is not queable is
\* answered with an error and its handler leaves the tracks and the current
\* position as they were.
NotQueable(uuid) ==
    ~is_track(uuid) /\ uuid[2] \notin PlaybackCatalogue.queable
C31_NotQueableRejected ==
    [][(/\ pc = "handle" /\ panic = "none" /\ cur.type \in {"Replace", "Queue"}
        /\ \E i \in DOMAIN cur.uuids : NotQueable(cur.uuids[i])
        /\ subscribers > 0 /\ (pc' # pc \/ panic' # panic))
       => (/\ \A i \in DOMAIN replies : replies[i].id = cur.id => ~replies[i].ok
           /\ tracks' = tracks
           /\ current_position(Self') = current_position(Self))]_vars

\* C33: once a ChangeVolume command has left the engine's volume at a new
\* value inside its range while a client is subscribed, and no command and
\* no engine event is waiting, a Volume update is eventually published.
VolumeChangedByCommand ==
    /\ pc = "recv" /\ panic = "none" /\ cur.type = "ChangeVolume"
    /\ 0 < volume /\ volume < MaxVolume /\ subscribers > 0
    /\ mailbox = <<>> /\ messages = <<>>
C33_VolumeRepublished ==
    VolumeChangedByCommand
        ~> (\E i \in DOMAIN effects.updates : effects.updates[i].kind = "Volume")

\* C35: the skip-forward loop of play and play_or_stop comes to an end:
\* whenever the orchestrator is looking for the urls of a track of a queue
\* of several tracks, it eventually is back at taking the next command (or
\* has panicked).
C35_SkipForwardTerminates ==
    (pc = "urls" /\ panic = "none" /\ Len(tracks) > 1)
        ~> (pc = "recv" \/ panic # "none")

\* C36: when the synthetic Next that follows the end of the last track's
\* stream has been handled with repeat off, and the queue was exhausted and
\* the published transport state is Playing, the transport state eventually
\* becomes Stopped.
LastTrackEnded ==
    /\ pc = "recv" /\ panic = "none" /\ cur.type = "Next" /\ cur.id > 0
    /\ ~repeat /\ sink = "empty" /\ state = "Playing"
    /\ mailbox = <<>> /\ messages = <<>>
    /\ tracks # <<>> /\ current_offset = Len(play_order) - 1
C36_EndOfLastTrackStops ==
    LastTrackEnded ~> (state = "Stopped")

\* C39: the orchestrator never awaits the engine's reply while the engine
\* thread is blocked sending an event into the full Player.messages and the
\* listener is blocked forwarding into the full mailbox.
C39_NoDeadlock ==
    ~(/\ pc = "ack" /\ ~ack
      /\ thread.emit # <<>> /\ Len(messages) = MessageCapacity
      /\ Len(mailbox) = MailboxCapacity)

====
